---- MODULE Spec2Model ----
(***************************************************************************)
(* Model of the data-access layer of the class API                         *)
(* (app/routers/class_.py): the write endpoints' unit of work              *)
(* (execute / commit / rollback inside an AsyncScopedSession scope) and    *)
(* the read endpoints' read-through cache (redis_cache with ttl 60).       *)
(*                                                                         *)
(* Every await of a handler is one step of the model, so concurrent        *)
(* requests interleave at exactly the suspension points of the code.       *)
(* AsyncScopedSession, redis_cache and key_builder live in app/core, which *)
(* is not part of the sources at hand: their behaviour follows sections    *)
(* 4.1 and 4.2 of the specification.                                       *)
(***************************************************************************)
EXTENDS Integers, Sequences, FiniteSets, TLC

\* ------------------------------------------------------------- bounds
MaxReq == 3
MaxWriteReq == 2
MaxReadReq == 2
MaxNotices == 2
MaxFaults == 2
TickStep == 30
PoolSize == 2

\* ---------------------------------------------------------- constants
\* ttl=60 of both redis_cache.set calls
TTL == 60

Req == 1..MaxReq
WriteReq == 1..MaxWriteReq
ReadReq == 1..MaxReadReq
\* Ages (history) are counted up to here
MaxAge == TTL + TickStep
ClassIds == {"c1", "c2"}
NoticeIds == 1..MaxNotices
Messages == {"m1", "m2"}

WriteOps == {"create_class", "create_class_notice",
             "update_class_notice", "delete_class_notice"}
ReadOps == {"read_class_list", "read_class"}

\* ------------------------------------------------------------- values
\* Python's None, a Class row, a ClassNotice row, the list of .scalars().all()
None == [kind |-> "None"]
ClassRow(c) == [kind |-> "Class", class_id |-> c]
NoticeRow(n, c, m) == [kind |-> "ClassNotice", class_id |-> c, id |-> n, message |-> m]
RowList(S) == [kind |-> "list", items |-> S]

\* Python truthiness of the values above: None and the empty list are falsy
Truthy(v) == /\ v # None
             /\ ~(v.kind = "list" /\ v.items = {})

NoRow == [kind |-> "NoRow"]
NoChange == [kind |-> "none"]
NoEntry == [kind |-> "NoEntry"]
NoArg == [kind |-> "NoArg"]

VARIABLES
    dbClass,        \* committed rows of Class: the set of their class_id
    dbNotice,       \* committed rows of ClassNotice: id -> row or NoRow
    nextNoticeId,   \* the autoincrement of ClassNotice.id
    rowLock,        \* ClassNotice id -> the request whose open transaction wrote it, or 0
    held,           \* requests that hold a connection of the pool
    cache,          \* redis: key -> entry or NoEntry
    faults,         \* database and cache calls that have failed so far
    op,             \* request -> the endpoint it runs ("idle" before it arrives)
    arg,            \* request -> its path and body parameters
    pc,             \* request -> the await it is suspended at
    result,         \* request -> the handler's local variable result
    sess,           \* request -> lifecycle state of its session scope
    pending,        \* request -> the uncommitted change of its transaction
    exc,            \* request -> the exception propagating out of the block
    resp,           \* request -> what the caller observes
    log,            \* request -> the database and cache calls it has issued, in order
    before,         \* request -> the requests that had finished when it arrived (history)
    hit,            \* request -> the cache entry its answer was taken from (history)
    resAge,         \* request -> how long result has differed from the database (history)
    commits         \* the changes committed to the database, in commit order (history)

vars == <<dbClass, dbNotice, nextNoticeId, rowLock, held, cache, faults, op, arg, pc,
          result, sess, pending, exc, resp, log, before, hit, resAge, commits>>

dbVars == <<dbClass, dbNotice, commits>>

Keys == {<<"read_class_list">>} \cup {<<"read_class", c>> : c \in ClassIds}

\* The state after start-up, for a database with the given rows
InitWith(classes, notices) ==
    /\ dbClass = classes
    /\ dbNotice = notices
    /\ nextNoticeId = IF notices[1] = NoRow THEN 1 ELSE 2
    /\ rowLock = [n \in NoticeIds |-> 0]
    /\ held = {}
    /\ cache = [k \in Keys |-> NoEntry]
    /\ faults = 0
    /\ op = [r \in Req |-> "idle"]
    /\ arg = [r \in Req |-> NoArg]
    /\ pc = [r \in Req |-> "idle"]
    /\ result = [r \in Req |-> None]
    /\ sess = [r \in Req |-> "NONE"]
    /\ pending = [r \in Req |-> NoChange]
    /\ exc = [r \in Req |-> "none"]
    /\ resp = [r \in Req |-> "none"]
    /\ log = [r \in Req |-> <<>>]
    /\ before = [r \in Req |-> {}]
    /\ hit = [r \in Req |-> NoEntry]
    /\ resAge = [r \in Req |-> 0]
    /\ commits = <<>>

NoNotices == [n \in NoticeIds |-> NoRow]
OneNotice == [n \in NoticeIds |-> IF n = 1 THEN NoticeRow(1, "c1", "m1") ELSE NoRow]

\* Start-up over a database that holds nothing yet or some rows already
Init == \E classes \in {{}, {"c1"}}, notices \in {NoNotices, OneNotice} :
            InitWith(classes, notices)

\* The same, for the runs in which no endpoint touches ClassNotice
InitRead == \E classes \in {{}, {"c1"}} : InitWith(classes, NoNotices)

\* ------------------------------------------------------------ helpers
Upd(f, r, v) == [f EXCEPT ![r] = v]
Logged(r, evs) == [log EXCEPT ![r] = log[r] \o evs]
Has(r, ev) == \E i \in 1..Len(log[r]) : log[r][i] = ev
Min(a, b) == IF a <= b THEN a ELSE b

\* A database or cache call fails (connectivity, constraint): n more failures
Fault(n) == faults + n <= MaxFaults /\ faults' = faults + n

\* ------------------------------------------------------- the database
\* The effect of a committed change on the rows of Class
ApplyClass(ch, S) == IF ch.kind = "insert_class" THEN S \cup {ch.class_id} ELSE S

\* The effect of a committed change on the rows of ClassNotice
ApplyNotice(ch, f) ==
    CASE ch.kind = "insert_notice" ->
           [f EXCEPT ![ch.id] = NoticeRow(ch.id, ch.class_id, ch.message)]
      [] ch.kind = "update_notice" ->
           IF f[ch.id] = NoRow THEN f
           ELSE [f EXCEPT ![ch.id] = NoticeRow(ch.id, f[ch.id].class_id, ch.message)]
      [] ch.kind = "delete_notice" -> [f EXCEPT ![ch.id] = NoRow]
      [] OTHER -> f

\* A commit the store must reject: the primary key of Class is taken
Rejected(ch) == ch.kind = "insert_class" /\ ch.class_id \in dbClass

\* The transaction of r commits: its change becomes part of the committed state
DbCommit(r) ==
    /\ dbClass' = ApplyClass(pending[r], dbClass)
    /\ dbNotice' = ApplyNotice(pending[r], dbNotice)
    /\ commits' = IF pending[r] = NoChange THEN commits
                  ELSE Append(commits, [req |-> r, change |-> pending[r]])
    /\ rowLock' = [n \in NoticeIds |-> IF rowLock[n] = r THEN 0 ELSE rowLock[n]]
    /\ pending' = Upd(pending, r, NoChange)

\* The transaction of r ends without a commit: its change is dropped
DbAbort(r) ==
    /\ UNCHANGED dbVars
    /\ rowLock' = [n \in NoticeIds |-> IF rowLock[n] = r THEN 0 ELSE rowLock[n]]
    /\ pending' = Upd(pending, r, NoChange)

\* ------------------------------------------- the session scope manager
\* enter_scope: a fresh session bound to the request, its connection checked
\* out of the pool (the request waits while the pool is exhausted)
enter_scope(r) ==
    /\ Cardinality(held) < PoolSize
    /\ held' = held \cup {r}
    /\ sess' = Upd(sess, r, "OPEN")

\* exit_scope(outcome): what leaving the block does to a session in lifecycle
\* state st when exception e ("none": normal completion) leaves the block.
\* Normal completion commits, a failure rolls back; a failed commit is followed
\* by a rollback and propagates; a failed rollback is logged and the connection
\* discarded.  A session whose transaction has already ended has nothing left
\* to commit or roll back, so that call cannot fail.
ScopeExits(st, e) ==
    IF e = "none"
    THEN IF st = "OPEN"
         THEN {[faults |-> 0, exc |-> "none",
                events |-> <<"scope_commit_ok", "release">>, commit |-> TRUE],
               [faults |-> 1, exc |-> "DBError",
                events |-> <<"scope_commit_fail", "scope_rollback_ok", "release">>,
                commit |-> FALSE],
               [faults |-> 2, exc |-> "DBError",
                events |-> <<"scope_commit_fail", "scope_rollback_fail", "discard">>,
                commit |-> FALSE]}
         ELSE {[faults |-> 0, exc |-> "none",
                events |-> <<"scope_commit_ok", "release">>, commit |-> TRUE]}
    ELSE IF st = "OPEN"
         THEN {[faults |-> 0, exc |-> e,
                events |-> <<"scope_rollback_ok", "release">>, commit |-> FALSE],
               [faults |-> 1, exc |-> e,
                events |-> <<"scope_rollback_fail", "discard">>, commit |-> FALSE]}
         ELSE {[faults |-> 0, exc |-> e,
                events |-> <<"scope_rollback_ok", "release">>, commit |-> FALSE]}

\* The scope of r is left with outcome o of ScopeExits
exit_scope(r, o) ==
    /\ IF o.faults = 0 THEN UNCHANGED faults ELSE Fault(o.faults)
    /\ IF o.commit THEN ~Rejected(pending[r]) /\ DbCommit(r) ELSE DbAbort(r)
    /\ held' = held \ {r}
    /\ sess' = Upd(sess, r, "CLOSED")
    /\ log' = Logged(r, o.events)

\* ------------------------------------------------ steps of a request
\* The request arrives: the router calls the endpoint with its parameters
Arrive(r, name, a, first) ==
    /\ pc[r] = "idle"
    /\ \A q \in Req : q < r => pc[q] # "idle"
    /\ op' = Upd(op, r, name)
    /\ arg' = Upd(arg, r, a)
    /\ pc' = Upd(pc, r, first)
    /\ before' = Upd(before, r, {q \in Req : pc[q] = "done"})
    /\ UNCHANGED <<dbVars, nextNoticeId, rowLock, held, cache, faults, result, sess,
                   pending, exc, resp, log, hit, resAge>>

\* async with AsyncScopedSession() as session:
Enter(r, next) ==
    /\ pc[r] = "enter"
    /\ enter_scope(r)
    /\ log' = Logged(r, <<"enter">>)
    /\ pc' = Upd(pc, r, next)
    /\ UNCHANGED <<dbVars, nextNoticeId, rowLock, cache, faults, op, arg, result, pending,
                   exc, resp, before, hit, resAge>>

\* ExecuteOk with the statement not waiting for the rows another open
\* transaction has written
ExecuteOk_nolock(r, ch, res, locks, nid) ==
    /\ pc[r] = "execute"
    /\ rowLock' = [n \in NoticeIds |-> IF n \in locks THEN r ELSE rowLock[n]]
    /\ pending' = Upd(pending, r, ch)
    /\ result' = Upd(result, r, res)
    /\ nextNoticeId' = nid
    /\ log' = Logged(r, <<"execute_ok">>)
    /\ pc' = Upd(pc, r, "commit")
    /\ UNCHANGED <<dbVars, held, cache, faults, op, arg, sess, exc, resp, before, hit,
                   resAge>>

\* await session.execute(stmt) succeeds: the statement's change ch is pending in
\* the transaction, the rows in locks are write-locked, .scalar() is res
ExecuteOk(r, ch, res, locks, nid) ==
    /\ pc[r] = "execute"
    /\ \A n \in locks : rowLock[n] \in {0, r}
    /\ rowLock' = [n \in NoticeIds |-> IF n \in locks THEN r ELSE rowLock[n]]
    /\ pending' = Upd(pending, r, ch)
    /\ result' = Upd(result, r, res)
    /\ nextNoticeId' = nid
    /\ log' = Logged(r, <<"execute_ok">>)
    /\ pc' = Upd(pc, r, "commit")
    /\ UNCHANGED <<dbVars, held, cache, faults, op, arg, sess, exc, resp, before, hit,
                   resAge>>

\* await session.execute(stmt) raises: control goes to the except clause
ExecuteFail(r) ==
    /\ pc[r] = "execute"
    /\ Fault(1)
    /\ log' = Logged(r, <<"execute_fail">>)
    /\ pc' = Upd(pc, r, "except")
    /\ UNCHANGED <<dbVars, nextNoticeId, rowLock, held, cache, op, arg, result, sess,
                   pending, exc, resp, before, hit, resAge>>

\* CommitOk with the handler evicting the cache after its commit
CommitOk_evicts(r, e) ==
    /\ pc[r] = "commit"
    /\ ~Rejected(pending[r])
    /\ DbCommit(r)
    /\ sess' = Upd(sess, r, "COMMITTED")
    /\ exc' = Upd(exc, r, e)
    /\ log' = Logged(r, <<"commit_ok">>)
    /\ pc' = Upd(pc, r, "exit")
    /\ cache' = [k \in Keys |-> NoEntry]
    /\ UNCHANGED <<nextNoticeId, held, faults, op, arg, result, resp, before, hit, resAge>>

\* CommitOk with the commit returning without the change being applied
CommitOk_dropped(r, e) ==
    /\ pc[r] = "commit"
    /\ DbAbort(r)
    /\ sess' = Upd(sess, r, "COMMITTED")
    /\ exc' = Upd(exc, r, e)
    /\ log' = Logged(r, <<"commit_ok">>)
    /\ pc' = Upd(pc, r, "exit")
    /\ UNCHANGED <<nextNoticeId, held, cache, faults, op, arg, result, resp, before, hit,
                   resAge>>

\* await session.commit() succeeds; e is the exception the rest of the block raises
CommitOk(r, e) ==
    /\ pc[r] = "commit"
    /\ ~Rejected(pending[r])
    /\ DbCommit(r)
    /\ sess' = Upd(sess, r, "COMMITTED")
    /\ exc' = Upd(exc, r, e)
    /\ log' = Logged(r, <<"commit_ok">>)
    /\ pc' = Upd(pc, r, "exit")
    /\ UNCHANGED <<nextNoticeId, held, cache, faults, op, arg, result, resp, before, hit,
                   resAge>>

\* CommitFail with the commit outside the try: its exception leaves the block
\* without the handler's rollback
CommitFail_uncaught(r) ==
    /\ pc[r] = "commit"
    /\ Fault(1)
    /\ log' = Logged(r, <<"commit_fail">>)
    /\ exc' = Upd(exc, r, "DBError")
    /\ pc' = Upd(pc, r, "exit")
    /\ UNCHANGED <<dbVars, nextNoticeId, rowLock, held, cache, op, arg, result, sess,
                   pending, resp, before, hit, resAge>>

\* await session.commit() raises: control goes to the except clause
CommitFail(r) ==
    /\ pc[r] = "commit"
    /\ Fault(1)
    /\ log' = Logged(r, <<"commit_fail">>)
    /\ pc' = Upd(pc, r, "except")
    /\ UNCHANGED <<dbVars, nextNoticeId, rowLock, held, cache, op, arg, result, sess,
                   pending, exc, resp, before, hit, resAge>>

\* RollbackOk with the except clause going back to the statement after the
\* rollback
RollbackOk_retries(r, failed) ==
    /\ pc[r] = "except"
    /\ DbAbort(r)
    /\ log' = Logged(r, <<"rollback_ok">>)
    /\ pc' = Upd(pc, r, "execute")
    /\ UNCHANGED <<nextNoticeId, held, cache, faults, op, arg, result, sess, exc, resp,
                   before, hit, resAge>>

\* RollbackOk with the except clause committing instead of rolling back
RollbackOk_commits(r, failed) ==
    /\ pc[r] = "except"
    /\ DbCommit(r)
    /\ sess' = Upd(sess, r, "COMMITTED")
    /\ exc' = Upd(exc, r, failed)
    /\ log' = Logged(r, <<"rollback_ok">>)
    /\ pc' = Upd(pc, r, "exit")
    /\ UNCHANGED <<nextNoticeId, held, cache, faults, op, arg, result, resp, before, hit,
                   resAge>>

\* except Exception: logger.error(e); await session.rollback(); raise failed
\* -- the rollback succeeds and the endpoint's failure leaves the block
RollbackOk(r, failed) ==
    /\ pc[r] = "except"
    /\ DbAbort(r)
    /\ sess' = Upd(sess, r, "ROLLED_BACK")
    /\ exc' = Upd(exc, r, failed)
    /\ log' = Logged(r, <<"rollback_ok">>)
    /\ pc' = Upd(pc, r, "exit")
    /\ UNCHANGED <<nextNoticeId, held, cache, faults, op, arg, result, resp, before, hit,
                   resAge>>

\* -- the rollback raises inside the except clause: its exception leaves the
\* block instead, and the raise below it is never reached
RollbackFail(r) ==
    /\ pc[r] = "except"
    /\ Fault(1)
    /\ exc' = Upd(exc, r, "DBError")
    /\ log' = Logged(r, <<"rollback_fail">>)
    /\ pc' = Upd(pc, r, "exit")
    /\ UNCHANGED <<dbVars, nextNoticeId, rowLock, held, cache, op, arg, result, sess,
                   pending, resp, before, hit, resAge>>

\* The request ends: the caller observes answer
Respond(r, answer) ==
    /\ resp' = Upd(resp, r, answer)
    /\ pc' = Upd(pc, r, "done")

\* LeaveAndRespond with an exception leaving the block past the scope's exit
LeaveAndRespond_leaks(r, notFoundBelow) ==
    /\ pc[r] = "exit"
    /\ IF exc[r] # "none"
       THEN /\ Respond(r, exc[r])
            /\ UNCHANGED <<dbVars, rowLock, pending, held, sess, log, exc, faults>>
       ELSE \E o \in ScopeExits(sess[r], exc[r]) :
              /\ exit_scope(r, o)
              /\ exc' = Upd(exc, r, o.exc)
              /\ Respond(r, IF o.exc # "none" THEN o.exc
                            ELSE IF notFoundBelow THEN "ClassNoticeNotFound" ELSE "ok")
    /\ UNCHANGED <<nextNoticeId, cache, op, arg, result, before, hit, resAge>>

\* The block of a write endpoint is left and the endpoint returns or raises;
\* notFoundBelow: the check below the block (if result is None) raises
LeaveAndRespond(r, notFoundBelow) ==
    /\ pc[r] = "exit"
    /\ \E o \in ScopeExits(sess[r], exc[r]) :
         /\ exit_scope(r, o)
         /\ exc' = Upd(exc, r, o.exc)
         /\ Respond(r, IF o.exc # "none" THEN o.exc
                       ELSE IF notFoundBelow THEN "ClassNoticeNotFound" ELSE "ok")
    /\ UNCHANGED <<nextNoticeId, cache, op, arg, result, before, hit, resAge>>

\* ------------------------------------------------- the write endpoints
\* uuid4().hex: some identifier; one that is taken makes the insert fail
uuid4 == ClassIds

\* POST "": insert(Class).values(class_id=uuid4().hex, ...).returning(Class)
create_class(r) ==
    \/ \E c \in uuid4 : Arrive(r, "create_class", [class_id |-> c], "enter")
    \/ /\ op[r] = "create_class"
       /\ \/ Enter(r, "execute")
          \/ /\ arg[r].class_id \notin dbClass
             /\ ExecuteOk(r, [kind |-> "insert_class", class_id |-> arg[r].class_id],
                          ClassRow(arg[r].class_id), {}, nextNoticeId)
          \/ ExecuteFail(r)
          \/ CommitOk(r, "none")
          \/ CommitFail(r)
          \/ RollbackOk(r, "ClassCreationFailed")
          \/ RollbackFail(r)
          \/ LeaveAndRespond(r, FALSE)

\* POST /notice/{class_id}: insert(ClassNotice).values(class_id, message).returning(ClassNotice)
create_class_notice(r) ==
    \/ \E c \in ClassIds, m \in Messages :
         Arrive(r, "create_class_notice", [class_id |-> c, message |-> m], "enter")
    \/ /\ op[r] = "create_class_notice"
       /\ \/ Enter(r, "execute")
          \/ /\ nextNoticeId <= MaxNotices
             /\ ExecuteOk(r, [kind |-> "insert_notice", class_id |-> arg[r].class_id,
                              id |-> nextNoticeId, message |-> arg[r].message],
                          NoticeRow(nextNoticeId, arg[r].class_id, arg[r].message),
                          {}, nextNoticeId + 1)
          \/ ExecuteFail(r)
          \/ CommitOk(r, "none")
          \/ CommitFail(r)
          \/ RollbackOk(r, "ClassNoticeCreationFailed")
          \/ RollbackFail(r)
          \/ LeaveAndRespond(r, FALSE)

\* Matches with the where clause comparing the notice id only
Matches_idonly(r) == dbNotice[arg[r].notice_id] # NoRow

\* .where(ClassNotice.id == notice_id, ClassNotice.class_id == class_id)
Matches(r) ==
    /\ dbNotice[arg[r].notice_id] # NoRow
    /\ dbNotice[arg[r].notice_id].class_id = arg[r].class_id

\* PUT /notice/{class_id}/{notice_id}: update(ClassNotice).where(...).values(message)
\* .returning(ClassNotice); "if result is None: raise" stands inside the block
update_class_notice(r) ==
    \/ \E c \in ClassIds, n \in NoticeIds, m \in Messages :
         Arrive(r, "update_class_notice",
                [class_id |-> c, message |-> m, notice_id |-> n], "enter")
    \/ /\ op[r] = "update_class_notice"
       /\ \/ Enter(r, "execute")
          \/ IF Matches(r)
             THEN ExecuteOk(r, [kind |-> "update_notice", id |-> arg[r].notice_id,
                                message |-> arg[r].message],
                            NoticeRow(arg[r].notice_id, arg[r].class_id, arg[r].message),
                            {arg[r].notice_id}, nextNoticeId)
             ELSE ExecuteOk(r, [kind |-> "noop"], None, {}, nextNoticeId)
          \/ ExecuteFail(r)
          \/ CommitOk(r, IF result[r] = None THEN "ClassNoticeNotFound" ELSE "none")
          \/ CommitFail(r)
          \/ RollbackOk(r, "ClassNoticeUpdateFailed")
          \/ RollbackFail(r)
          \/ LeaveAndRespond(r, FALSE)

\* DELETE /notice/{class_id}/{notice_id}: delete(ClassNotice).where(...)
\* .returning(ClassNotice); "if result is None: raise" stands below the block
delete_class_notice(r) ==
    \/ \E c \in ClassIds, n \in NoticeIds :
         Arrive(r, "delete_class_notice", [class_id |-> c, notice_id |-> n], "enter")
    \/ /\ op[r] = "delete_class_notice"
       /\ \/ Enter(r, "execute")
          \/ IF Matches(r)
             THEN ExecuteOk(r, [kind |-> "delete_notice", id |-> arg[r].notice_id],
                            dbNotice[arg[r].notice_id], {arg[r].notice_id}, nextNoticeId)
             ELSE ExecuteOk(r, [kind |-> "noop"], None, {}, nextNoticeId)
          \/ ExecuteFail(r)
          \/ CommitOk(r, "none")
          \/ CommitFail(r)
          \/ RollbackOk(r, "ClassNoticeDeleteFailed")
          \/ RollbackFail(r)
          \/ LeaveAndRespond(r, result[r] = None)

\* ---------------------------------------------------- the read cache
\* key_builder(operation, *args): the operation's name followed by its arguments
key_builder(operation, args) == <<operation>> \o args

\* What a database read for the key's operation returns on the committed state
DbValue(k) ==
    IF k[1] = "read_class_list" THEN RowList({ClassRow(c) : c \in dbClass})
    ELSE IF k[2] \in dbClass THEN ClassRow(k[2]) ELSE None

\* An entry counts as present only before its expiry
Live(k) == cache[k] # NoEntry /\ cache[k].ttl > 0

\* redis_cache.exists(key)
CacheExists(k) == Live(k)

\* redis_cache.get(key): the stored value, or None for absence
CacheGet(k) == IF Live(k) THEN cache[k].value ELSE None

\* redis_cache.set(key, value, ttl) by request r: stores value to expire ttl from
\* now, overwriting the entry at key.  History: who set it, how long ago, and
\* for how long the value has differed from the database, now and when set
CacheSet(r, k, v, ttl) ==
    cache' = [cache EXCEPT ![k] = [kind |-> "Entry", ttl |-> ttl, value |-> v, by |-> r,
                                   sinceSet |-> 0, age |-> resAge[r],
                                   ageAtSet |-> resAge[r]]]

\* A read request that holds a database result it has not cached yet
HoldsResult(r) == op[r] \in ReadOps /\ pc[r] \in {"set", "exit"} /\ Has(r, "execute_ok")

\* TickStep units of time pass; entries that reach their expiry are gone
Tick ==
    /\ cache' = [k \in Keys |->
                   IF cache[k] = NoEntry \/ cache[k].ttl <= TickStep THEN NoEntry
                   ELSE [cache[k] EXCEPT
                           !.ttl = @ - TickStep,
                           !.sinceSet = Min(@ + TickStep, MaxAge),
                           !.age = IF cache[k].value = DbValue(k) THEN 0
                                   ELSE Min(@ + TickStep, MaxAge)]]
    /\ resAge' = [r \in Req |->
                   IF HoldsResult(r)
                      /\ result[r] # DbValue(IF op[r] = "read_class_list"
                                             THEN key_builder("read_class_list", <<>>)
                                             ELSE key_builder("read_class", <<arg[r].class_id>>))
                   THEN Min(resAge[r] + TickStep, MaxAge) ELSE resAge[r]]
    /\ UNCHANGED <<dbVars, nextNoticeId, rowLock, held, faults, op, arg, pc, result, sess,
                   pending, exc, resp, log, before, hit>>

\* A cache call of a request outside a session block raises: nothing catches
\* it and the request fails with it
CacheFailOutside(r, at) ==
    /\ pc[r] = at
    /\ Fault(1)
    /\ log' = Logged(r, <<"cache_fail">>)
    /\ exc' = Upd(exc, r, "CacheError")
    /\ Respond(r, "CacheError")
    /\ UNCHANGED <<dbVars, nextNoticeId, rowLock, held, cache, op, arg, result, sess,
                   pending, before, hit, resAge>>

\* The value the endpoint answers with, or its Not Found (if result is None)
Answer(v) == IF v = None THEN "ClassNotFoundException" ELSE "ok"

\* result = await redis_cache.get(_key) on the hit path, then the code below
\* the if: the request ends with what the get returned
GetAndRespond(r, at, k) ==
    /\ pc[r] = at
    /\ result' = Upd(result, r, CacheGet(k))
    /\ log' = Logged(r, <<IF Live(k) THEN "get_value" ELSE "get_none">>)
    /\ hit' = Upd(hit, r, IF Live(k) THEN cache[k] ELSE NoEntry)
    /\ Respond(r, Answer(CacheGet(k)))
    /\ UNCHANGED <<dbVars, nextNoticeId, rowLock, held, cache, faults, op, arg, sess,
                   pending, exc, before, resAge>>

\* (await session.execute(select ...)) succeeds with res
Query(r, res, next) ==
    /\ pc[r] = "execute"
    /\ result' = Upd(result, r, res)
    /\ log' = Logged(r, <<"execute_ok">>)
    /\ pc' = Upd(pc, r, next)
    /\ UNCHANGED <<dbVars, nextNoticeId, rowLock, held, cache, faults, op, arg, sess,
                   pending, exc, resp, before, hit, resAge>>

\* (await session.execute(select ...)) raises: the exception leaves the block
QueryFail(r) ==
    /\ pc[r] = "execute"
    /\ Fault(1)
    /\ log' = Logged(r, <<"execute_fail">>)
    /\ exc' = Upd(exc, r, "DBError")
    /\ pc' = Upd(pc, r, "exit")
    /\ UNCHANGED <<dbVars, nextNoticeId, rowLock, held, cache, op, arg, result, sess,
                   pending, resp, before, hit, resAge>>

\* -------------------------------------------------- the read endpoints
\* ListSet with a ttl of twice the 60
ListSet_longer(r) ==
    /\ pc[r] = "set"
    /\ CacheSet(r, key_builder("read_class_list", <<>>), result[r], 2 * TTL)
    /\ log' = Logged(r, <<"set">>)
    /\ pc' = Upd(pc, r, "exit")
    /\ UNCHANGED <<dbVars, nextNoticeId, rowLock, held, faults, op, arg, result, sess,
                   pending, exc, resp, before, hit, resAge>>

\* await redis_cache.set(_key, result, ttl=60) of read_class_list, inside the block
ListSet(r) ==
    /\ pc[r] = "set"
    /\ CacheSet(r, key_builder("read_class_list", <<>>), result[r], TTL)
    /\ log' = Logged(r, <<"set">>)
    /\ pc' = Upd(pc, r, "exit")
    /\ UNCHANGED <<dbVars, nextNoticeId, rowLock, held, faults, op, arg, result, sess,
                   pending, exc, resp, before, hit, resAge>>

\* GET /list
read_class_list(r) ==
    LET _key == key_builder("read_class_list", <<>>) IN
    \/ Arrive(r, "read_class_list", NoArg, "exists")
    \/ /\ op[r] = "read_class_list"
       /\ \/ \* if await redis_cache.exists(_key):
             /\ pc[r] = "exists"
             /\ log' = Logged(r, <<IF CacheExists(_key) THEN "exists_true" ELSE "exists_false">>)
             /\ pc' = Upd(pc, r, IF CacheExists(_key) THEN "get" ELSE "enter")
             /\ UNCHANGED <<dbVars, nextNoticeId, rowLock, held, cache, faults, op, arg,
                            result, sess, pending, exc, resp, before, hit, resAge>>
          \/ CacheFailOutside(r, "exists")
          \/ \* result = await redis_cache.get(_key); if result is None: raise
             GetAndRespond(r, "get", _key)
          \/ CacheFailOutside(r, "get")
          \/ \* async with AsyncScopedSession() as session:
             Enter(r, "execute")
          \/ \* result = (await session.execute(select(Class))).scalars().all()
             \* if result is not None:
             Query(r, RowList({ClassRow(c) : c \in dbClass}),
                   IF RowList({ClassRow(c) : c \in dbClass}) # None THEN "set" ELSE "exit")
          \/ QueryFail(r)
          \/ ListSet(r)
          \/ \* the set raises inside the block
             /\ pc[r] = "set"
             /\ Fault(1)
             /\ log' = Logged(r, <<"cache_fail">>)
             /\ exc' = Upd(exc, r, "CacheError")
             /\ pc' = Upd(pc, r, "exit")
             /\ UNCHANGED <<dbVars, nextNoticeId, rowLock, held, cache, op, arg, result,
                            sess, pending, resp, before, hit, resAge>>
          \/ \* the block is left; if result is None: raise; return
             /\ pc[r] = "exit"
             /\ \E o \in ScopeExits(sess[r], exc[r]) :
                  /\ exit_scope(r, o)
                  /\ exc' = Upd(exc, r, o.exc)
                  /\ Respond(r, IF o.exc # "none" THEN o.exc ELSE Answer(result[r]))
             /\ UNCHANGED <<nextNoticeId, cache, op, arg, result, before, hit, resAge>>

\* ClassSet with the value stored under the key of read_class_list
ClassSet_listkey(r) ==
    /\ pc[r] = "set"
    /\ CacheSet(r, key_builder("read_class_list", <<>>), result[r], TTL)
    /\ log' = Logged(r, <<"set">>)
    /\ Respond(r, Answer(result[r]))
    /\ UNCHANGED <<dbVars, nextNoticeId, rowLock, held, faults, op, arg, result, sess,
                   pending, exc, before, hit, resAge>>

\* await redis_cache.set(_key, result, ttl=60) of read_class, below the block and
\* whatever result is; then if result is None: raise; return
ClassSet(r) ==
    /\ pc[r] = "set"
    /\ CacheSet(r, key_builder("read_class", <<arg[r].class_id>>), result[r], TTL)
    /\ log' = Logged(r, <<"set">>)
    /\ Respond(r, Answer(result[r]))
    /\ UNCHANGED <<dbVars, nextNoticeId, rowLock, held, faults, op, arg, result, sess,
                   pending, exc, before, hit, resAge>>

\* GET /{class_id}
read_class(r) ==
    \/ \E c \in ClassIds : Arrive(r, "read_class", [class_id |-> c], "get1")
    \/ /\ op[r] = "read_class"
       /\ LET _key == key_builder("read_class", <<arg[r].class_id>>) IN
          \/ \* if await redis_cache.get(_key):
             /\ pc[r] = "get1"
             /\ log' = Logged(r, <<IF Live(_key) THEN "get_value" ELSE "get_none">>)
             /\ pc' = Upd(pc, r, IF Truthy(CacheGet(_key)) THEN "get2" ELSE "enter")
             /\ UNCHANGED <<dbVars, nextNoticeId, rowLock, held, cache, faults, op, arg,
                            result, sess, pending, exc, resp, before, hit, resAge>>
          \/ CacheFailOutside(r, "get1")
          \/ \* result = await redis_cache.get(_key); if result is None: raise
             GetAndRespond(r, "get2", _key)
          \/ CacheFailOutside(r, "get2")
          \/ \* async with AsyncScopedSession() as session:
             Enter(r, "execute")
          \/ \* result = (await session.execute(select(Class).where(...))).scalar()
             Query(r, IF arg[r].class_id \in dbClass THEN ClassRow(arg[r].class_id) ELSE None,
                   "exit")
          \/ QueryFail(r)
          \/ \* the block is left; a failure ends the request
             /\ pc[r] = "exit"
             /\ \E o \in ScopeExits(sess[r], exc[r]) :
                  /\ exit_scope(r, o)
                  /\ exc' = Upd(exc, r, o.exc)
                  /\ IF o.exc # "none"
                     THEN Respond(r, o.exc)
                     ELSE pc' = Upd(pc, r, "set") /\ UNCHANGED resp
             /\ UNCHANGED <<nextNoticeId, cache, op, arg, result, before, hit, resAge>>
          \/ ClassSet(r)
          \/ CacheFailOutside(r, "set")

\* ------------------------------------- the endpoints without a write
\* GET /notice/{class_id}/list: select(ClassNotice).where(class_id == class_id);
\* "if not result: raise" stands below the block
read_class_notice_list(r) ==
    \/ \E c \in ClassIds : Arrive(r, "read_class_notice_list", [class_id |-> c], "enter")
    \/ /\ op[r] = "read_class_notice_list"
       /\ \/ Enter(r, "execute")
          \/ Query(r, RowList({dbNotice[n] : n \in {i \in NoticeIds :
                                 /\ dbNotice[i] # NoRow
                                 /\ dbNotice[i].class_id = arg[r].class_id}}), "exit")
          \/ QueryFail(r)
          \/ /\ pc[r] = "exit"
             /\ \E o \in ScopeExits(sess[r], exc[r]) :
                  /\ exit_scope(r, o)
                  /\ exc' = Upd(exc, r, o.exc)
                  /\ Respond(r, IF o.exc # "none" THEN o.exc
                                ELSE IF ~Truthy(result[r]) THEN "ClassNoticeNotFound"
                                ELSE "ok")
             /\ UNCHANGED <<nextNoticeId, cache, op, arg, result, before, hit, resAge>>

\* The "async with AsyncScopedSession()" blocks of session_test
ScopesOfTest == 4

\* The scopes the request has entered, and those it has left
Opened(r) == Cardinality({i \in 1..Len(log[r]) : log[r][i] = "enter"})
Closed(r) == Cardinality({i \in 1..Len(log[r]) : log[r][i] \in {"release", "discard"}})

\* TestLeave with the block's scope still open when the next block is entered
TestLeave_keeps(r) ==
    /\ pc[r] = "exit"
    /\ IF Opened(r) < ScopesOfTest
       THEN pc' = Upd(pc, r, "enter") /\ UNCHANGED <<resp, held, sess, log, exc, faults>>
       ELSE \E o \in ScopeExits(sess[r], exc[r]) :
              /\ exit_scope(r, o)
              /\ exc' = Upd(exc, r, o.exc)
              /\ Respond(r, IF o.exc # "none" THEN o.exc ELSE "ok")
    /\ UNCHANGED <<dbVars, rowLock, pending>>
    /\ UNCHANGED <<nextNoticeId, cache, op, arg, result, before, hit, resAge>>

\* A block of session_test is left (its body only logs): the scope exits, then
\* the next block follows, or the return after the last one
TestLeave(r) ==
    /\ pc[r] = "exit"
    /\ \E o \in ScopeExits(sess[r], exc[r]) :
         /\ exit_scope(r, o)
         /\ exc' = Upd(exc, r, o.exc)
         /\ IF o.exc # "none" THEN Respond(r, o.exc)
            ELSE IF Opened(r) < ScopesOfTest THEN pc' = Upd(pc, r, "enter") /\ UNCHANGED resp
            ELSE Respond(r, "ok")
    /\ UNCHANGED <<nextNoticeId, cache, op, arg, result, before, hit, resAge>>

\* GET /session/test: four blocks, one after the other
session_test(r) ==
    \/ Arrive(r, "session_test", NoArg, "enter")
    \/ /\ op[r] = "session_test"
       /\ \/ Enter(r, "exit")
          \/ TestLeave(r)

\* ------------------------------------------------------- cancellation
\* The awaits of a handler that stand inside its session block
InScopeAwait(r) ==
    /\ r \in held
    /\ \/ pc[r] \in {"execute", "commit", "except"}
       \/ pc[r] = "set" /\ op[r] = "read_class_list"

\* Cancel with the cancelled request ending at the await, the rest of its
\* block and the block's exit never run
Cancel_skips(r, applied) ==
    /\ InScopeAwait(r)
    /\ ~applied
    /\ log' = Logged(r, <<"cancel">>)
    /\ exc' = Upd(exc, r, "CancelledError")
    /\ Respond(r, "CancelledError")
    /\ UNCHANGED <<dbVars, rowLock, pending>>
    /\ UNCHANGED <<nextNoticeId, held, cache, faults, op, arg, result, sess, before, hit,
                   resAge>>

\* The request is cancelled while suspended at an await inside its block:
\* CancelledError is raised there, "except Exception" does not catch it (it is a
\* BaseException), so it leaves the block.  applied: the await was the commit
\* and the database had carried it out before the cancellation arrived
Cancel(r, applied) ==
    /\ InScopeAwait(r)
    /\ applied => (pc[r] = "commit" /\ ~Rejected(pending[r]))
    /\ IF applied THEN DbCommit(r) ELSE UNCHANGED <<dbVars, rowLock, pending>>
    /\ log' = Logged(r, IF applied THEN <<"commit_applied", "cancel">> ELSE <<"cancel">>)
    /\ exc' = Upd(exc, r, "CancelledError")
    /\ pc' = Upd(pc, r, "exit")
    /\ UNCHANGED <<nextNoticeId, held, cache, faults, op, arg, result, sess, resp, before,
                   hit, resAge>>

\* ----------------------------------------------------- specifications
\* The write endpoints, concurrently
NextWrite ==
    \E r \in WriteReq : \/ create_class(r)
                        \/ create_class_notice(r)
                        \/ update_class_notice(r)
                        \/ delete_class_notice(r)

SpecWrite == Init /\ [][NextWrite]_vars

\* The cached reads, concurrently, and time
NextRead ==
    \/ \E r \in ReadReq : read_class_list(r) \/ read_class(r)
    \/ Tick

SpecRead == InitRead /\ [][NextRead]_vars

\* The cached reads with create_class as the writer of what they read
NextReadWrite ==
    \/ \E r \in Req : read_class_list(r) \/ read_class(r) \/ create_class(r)
    \/ Tick

SpecReadWrite == InitRead /\ [][NextReadWrite]_vars

\* Every endpoint, concurrently, and time
Next ==
    \/ \E r \in Req : \/ create_class(r)
                      \/ read_class_list(r)
                      \/ read_class(r)
                      \/ create_class_notice(r)
                      \/ update_class_notice(r)
                      \/ delete_class_notice(r)
    \/ Tick

Spec == Init /\ [][Next]_vars

\* The write endpoints next to the cached reads, and time
NextMixed ==
    \/ \E r \in WriteReq : \/ create_class(r)
                           \/ create_class_notice(r)
                           \/ update_class_notice(r)
                           \/ delete_class_notice(r)
                           \/ read_class_list(r)
                           \/ read_class(r)
    \/ Tick

SpecMixed == Init /\ [][NextMixed]_vars

\* A writer and a cached reader whose requests may be cancelled
NextCancel ==
    \/ \E r \in Req : \/ create_class(r)
                      \/ read_class_list(r)
                      \/ \E applied \in BOOLEAN : Cancel(r, applied)
    \/ Tick

SpecCancel == InitRead /\ [][NextCancel]_vars

\* More requests than the pool has connections: the endpoints whose block is
\* left in each of the ways there are (return, database failure, Not Found
\* raised in the block and below it), and session_test
InitScope == InitWith({"c1"}, OneNotice)

NextScope ==
    \E r \in Req : \/ session_test(r)
                   \/ read_class_notice_list(r)
                   \/ update_class_notice(r)

SpecScope == InitScope /\ [][NextScope]_vars

\* ------------------------------------------------------------ C1 - C4
IsWrite(r) == op[r] \in WriteOps
Done(r) == pc[r] = "done"

\* The endpoint's narrow failure kind
FailedKind(name) ==
    CASE name = "create_class" -> "ClassCreationFailed"
      [] name = "create_class_notice" -> "ClassNoticeCreationFailed"
      [] name = "update_class_notice" -> "ClassNoticeUpdateFailed"
      [] name = "delete_class_notice" -> "ClassNoticeDeleteFailed"
      [] OTHER -> "none"

\* The entries of the commit history that are the request's
Mine(r) == {i \in 1..Len(commits) : commits[i].req = r}

\* What the handler itself issued on its session, in order
HandlerEvents == {"execute_ok", "execute_fail", "commit_ok", "commit_fail",
                  "rollback_ok", "rollback_fail"}
IsHandlerEvent(e) == e \in HandlerEvents
HandlerLog(r) == SelectSeq(log[r], IsHandlerEvent)
RollbackEvents == {"rollback_ok", "rollback_fail", "scope_rollback_ok", "scope_rollback_fail"}
RolledBack(r) == \E e \in RollbackEvents : Has(r, e)

IsPrefix(s, t) == Len(s) <= Len(t) /\ SubSeq(t, 1, Len(s)) = s

\* The committed state changes only by the commit step of a unit of work whose
\* statement executed, and then by exactly that unit's change
C1_CommitStep ==
    \/ UNCHANGED <<dbClass, dbNotice, commits>>
    \/ \E r \in Req :
         /\ Has(r, "execute_ok")
         /\ pending[r] # NoChange
         /\ log'[r] = Append(log[r], "commit_ok")
         /\ commits' = Append(commits, [req |-> r, change |-> pending[r]])
         /\ dbClass' = ApplyClass(pending[r], dbClass)
         /\ dbNotice' = ApplyNotice(pending[r], dbNotice)

\* A finished unit of work is in the commit history once if its execute and its
\* commit succeeded, and not at all if either failed or a failure is reported
C1_Outcome ==
    \A r \in Req : (IsWrite(r) /\ Done(r)) =>
        /\ (Has(r, "execute_ok") /\ Has(r, "commit_ok")) => Cardinality(Mine(r)) = 1
        /\ (Has(r, "execute_fail") \/ Has(r, "commit_fail")) => Mine(r) = {}
        /\ resp[r] \in {FailedKind(op[r]), "DBError"} => Mine(r) = {}
        /\ pending[r] = NoChange

\* C1: atomicity of every write unit of work -- if execute and commit both
\* succeed the unit's change is applied to the committed state (once, whole);
\* if either fails the committed state keeps no trace of the unit
C1_Atomicity == [](C1_Outcome) /\ [][C1_CommitStep]_vars

C1_Witness ==
    \E r, q \in Req :
        /\ IsWrite(r) /\ Done(r) /\ Has(r, "execute_ok") /\ Has(r, "commit_fail")
        /\ resp[r] = FailedKind(op[r])
        /\ IsWrite(q) /\ Done(q) /\ Has(q, "commit_ok") /\ resp[q] = "ok"
        /\ commits # <<>> /\ commits[Len(commits)].change.kind # "noop"
        /\ r # q

\* The paths of the write state machine, as the calls the handler issues
WritePaths == {<<"execute_fail", "rollback_ok">>,
               <<"execute_fail", "rollback_fail">>,
               <<"execute_ok", "commit_ok">>,
               <<"execute_ok", "commit_fail", "rollback_ok">>,
               <<"execute_ok", "commit_fail", "rollback_fail">>}

\* C2: every write endpoint follows the write state machine -- a failed execute
\* or a failed commit is followed by the rollback and then a failure response, a
\* successful execute by the commit; a failure response is preceded by a
\* rollback of the unit's session, a success response by a successful commit
\* and no rollback
C2_WriteStateMachine ==
    \A r \in Req : IsWrite(r) =>
        /\ \E p \in WritePaths : IsPrefix(HandlerLog(r), p)
        /\ pc[r] = "commit" <=> HandlerLog(r) = <<"execute_ok">>
        /\ pc[r] = "except" <=> HandlerLog(r) \in {<<"execute_fail">>,
                                                   <<"execute_ok", "commit_fail">>}
        /\ Done(r) => HandlerLog(r) \in WritePaths
        /\ (Done(r) /\ resp[r] \in {FailedKind(op[r]), "DBError"}) =>
              (Has(r, "rollback_ok") \/ Has(r, "rollback_fail"))
        /\ (Done(r) /\ resp[r] = "ok") =>
              (HandlerLog(r) = <<"execute_ok", "commit_ok">> /\ ~RolledBack(r))
        /\ (Done(r) /\ (Has(r, "execute_fail") \/ Has(r, "commit_fail"))) =>
              resp[r] \in {FailedKind(op[r]), "DBError"}

C2_Witness ==
    \E r \in Req :
        /\ IsWrite(r) /\ Done(r)
        /\ HandlerLog(r) = <<"execute_ok", "commit_fail", "rollback_ok">>
        /\ resp[r] = FailedKind(op[r])

\* C3: every database failure inside a write unit of work (of execute, of
\* commit, or of the rollback that follows) reaches the caller only as the
\* endpoint's narrow failure kind
C3_NarrowFailureOnly ==
    \A r \in Req : (IsWrite(r) /\ Done(r)) =>
        resp[r] \in {"ok", "ClassNoticeNotFound", FailedKind(op[r])}

\* C4: in update_class_notice and delete_class_notice a statement that matches
\* no row ends in Not Found, after a successful commit and with no rollback
\* issued by the handler or by the scope
C4_NotFoundWithoutRollback ==
    \A r \in Req :
        (/\ op[r] \in {"update_class_notice", "delete_class_notice"}
         /\ Done(r)
         /\ resp[r] = "ClassNoticeNotFound") =>
            (Has(r, "commit_ok") /\ ~RolledBack(r))


\* ----------------------------------------------------------- C5 - C10
IsRead(r) == op[r] \in ReadOps

\* The cache key of a read request
KeyOf(r) == IF op[r] = "read_class_list" THEN key_builder("read_class_list", <<>>)
            ELSE key_builder("read_class", <<arg[r].class_id>>)

\* r2 is the same read as r1, issued after r1 had finished
SameReadAfter(r1, r2) ==
    /\ IsRead(r1) /\ op[r2] = op[r1] /\ arg[r2] = arg[r1]
    /\ r1 \in before[r2]

\* ... with no such read between them
NextSameRead(r1, r2) ==
    /\ SameReadAfter(r1, r2)
    /\ ~\E r3 \in Req : SameReadAfter(r1, r3) /\ SameReadAfter(r3, r2)

\* The request has issued a database query
Queried(r) == Has(r, "execute_ok") \/ Has(r, "execute_fail")

\* C5: read_class and read_class_list raise Not Found only after a database
\* query of the same request succeeded and returned no result, whatever the
\* interleaving of expiry and of other requests with their two cache calls
C5_NotFoundOnlyFromDatabase ==
    \A r \in Req : (IsRead(r) /\ Done(r) /\ resp[r] = "ClassNotFoundException") =>
        (Has(r, "execute_ok") /\ ~Truthy(result[r]))

\* C6: null results are never cached -- a read endpoint performs its cache set
\* only with a non-null database result, and no entry holds a null
C6_NullNeverCached ==
    /\ \A r \in Req : (IsRead(r) /\ Has(r, "set")) => result[r] # None
    /\ \A k \in Keys : cache[k] # NoEntry => cache[k].value # None

\* C7: no negative caching -- after a read that found no result in the database
\* (no matching row, or no rows at all), the next identical read queries the
\* database again
C7_NoNegativeCaching ==
    \A r1, r2 \in Req :
        (/\ NextSameRead(r1, r2)
         /\ Has(r1, "execute_ok") /\ ~Truthy(result[r1])
         /\ Done(r2) /\ ~Has(r2, "cache_fail")) => Queried(r2)

\* C8: read-through idempotence -- while the entry written by a read is live, the
\* same read issued after it performs no database query, opens no scope, and
\* answers with the value that entry holds
C8_ReadThroughIdempotence ==
    \A r1, r2 \in Req :
        (/\ SameReadAfter(r1, r2)
         /\ Live(KeyOf(r1)) /\ cache[KeyOf(r1)].by = r1
         /\ ~Has(r2, "cache_fail")) =>
            /\ ~Queried(r2)
            /\ pc[r2] \notin {"enter", "execute"}
            /\ Done(r2) => /\ hit[r2] # NoEntry
                            /\ hit[r2].by = r1
                            /\ result[r2] = cache[KeyOf(r1)].value

\* C9 as claimed: a cached value that a read returns equals the committed
\* database state at some instant no more than TTL before
C9_StalenessWithinTTL ==
    \A r \in Req : (IsRead(r) /\ Done(r) /\ hit[r] # NoEntry) => hit[r].age <= TTL

\* C9, amended: a cached value that a read returns was set less than TTL before,
\* and has differed from the committed state for no longer than the time since
\* it was set plus the time it had already differed when it was set (the delay
\* between the storing request's database query and its cache set)
C9_StalenessWithinTTLPlusDelay ==
    \A r \in Req : (IsRead(r) /\ Done(r) /\ hit[r] # NoEntry) =>
        /\ hit[r].sinceSet < TTL
        /\ hit[r].age <= hit[r].ageAtSet + hit[r].sinceSet
        /\ hit[r].ageAtSet = 0 => hit[r].age < TTL

C9_Witness ==
    \E r \in Req : /\ IsRead(r) /\ Done(r) /\ hit[r] # NoEntry
                   /\ hit[r].age > TTL
                   /\ resp[r] = "ok"

\* C10: a failing cache call does not fail a read -- the request answers with
\* what the database returns
C10_CacheFailureDegrades ==
    \A r \in Req : (IsRead(r) /\ Done(r) /\ Has(r, "cache_fail")) =>
        (resp[r] \in {"ok", "ClassNotFoundException"} /\ Has(r, "execute_ok"))

\* ---------------------------------------------------------- C11, C17
\* The scope exits that ended a transaction: a commit, or a rollback attempted
ScopeTerminals == {"scope_commit_ok", "scope_rollback_ok", "scope_rollback_fail"}
Terminated(r) == Cardinality({i \in 1..Len(log[r]) : log[r][i] \in ScopeTerminals})

AllFinished == \A r \in Req : pc[r] \in {"idle", "done"}

\* C11: every scope a handler opens reaches its terminal action and gives its
\* connection back on every way out of the block (return, database failure,
\* Not Found raised in the block or below it); the connections checked out
\* never exceed the pool size, and none is checked out once all requests have
\* finished
C11_ScopesReleased ==
    /\ Cardinality(held) <= PoolSize
    /\ \A r \in Req :
          /\ r \in held <=> Opened(r) = Closed(r) + 1
          /\ Terminated(r) = Closed(r)
          /\ Done(r) => (r \notin held /\ Opened(r) = Closed(r) /\ pending[r] = NoChange)
    /\ AllFinished => held = {}

C11_Witness ==
    /\ Cardinality(held) = PoolSize
    /\ \E r \in Req :
          /\ op[r] = "update_class_notice" /\ Done(r)
          /\ resp[r] = "ClassNoticeNotFound"
          /\ Opened(r) = 1 /\ Closed(r) = 1

\* C17: a request has at most one scope open at a time -- in session_test each
\* of the four is closed before the next is opened, every other handler opens
\* one -- and concurrent requests hold scopes of their own: a connection, an
\* uncommitted change and a row lock belong to the one request whose scope is
\* open
C17_OneScopePerContext ==
    \A r \in Req :
        /\ Opened(r) - Closed(r) \in {0, 1}
        /\ r \in held <=> Opened(r) - Closed(r) = 1
        /\ r \in held <=> sess[r] \in {"OPEN", "COMMITTED", "ROLLED_BACK"}
        /\ op[r] # "session_test" => Opened(r) <= 1
        /\ Opened(r) <= ScopesOfTest
        /\ (op[r] = "session_test" /\ Done(r) /\ resp[r] = "ok") =>
              (Opened(r) = ScopesOfTest /\ Closed(r) = ScopesOfTest)
        /\ pending[r] # NoChange => (r \in held /\ sess[r] = "OPEN")
        /\ \A n \in NoticeIds : rowLock[n] = r => (r \in held /\ sess[r] = "OPEN")

C17_Witness ==
    \E r, q \in Req :
        /\ r # q /\ r \in held /\ q \in held
        /\ op[r] = "session_test" /\ Opened(r) = ScopesOfTest
        /\ op[q] = "session_test" /\ Opened(q) = 2

\* ---------------------------------------------------------------- C12
Cancelled(r) == Has(r, "cancel")

\* C12: a request cancelled at an await inside its block (execute, commit,
\* rollback, or the cache set of read_class_list) still passes the scope's exit:
\* the terminal rollback runs, the connection leaves the request's hands, and
\* the committed state holds no change of the request that the database had
\* not committed before the cancellation
C12_CancellationCleansUp ==
    \A r \in Req : Cancelled(r) =>
        /\ pc[r] \in {"exit", "done"}
        /\ pc[r] = "exit" => r \in held
        /\ Done(r) =>
              /\ resp[r] = "CancelledError"
              /\ Has(r, "scope_rollback_ok") \/ Has(r, "scope_rollback_fail")
              /\ Has(r, "release") \/ Has(r, "discard")
              /\ r \notin held
              /\ pending[r] = NoChange
        /\ Mine(r) # {} => Has(r, "commit_applied")
        /\ (op[r] = "create_class" /\ ~Has(r, "commit_applied") /\ arg[r].class_id \in dbClass) =>
              \/ \E i \in 1..Len(commits) : /\ commits[i].req # r
                                             /\ commits[i].change.kind = "insert_class"
                                             /\ commits[i].change.class_id = arg[r].class_id
              \/ ~\E i \in 1..Len(commits) : /\ commits[i].change.kind = "insert_class"
                                              /\ commits[i].change.class_id = arg[r].class_id

C12_Witness ==
    \E r, q \in Req :
        /\ op[r] = "create_class" /\ Cancelled(r) /\ Done(r)
        /\ Has(r, "execute_ok") /\ ~Has(r, "commit_applied")
        /\ arg[r].class_id \notin dbClass
        /\ op[q] = "read_class_list" /\ Cancelled(q) /\ Done(q)
        /\ Has(q, "execute_ok")

\* ---------------------------------------------------------------- C13
\* The notice n of class c was in the table at start-up
ExistedFromStart(n, c) ==
    /\ ~\E i \in 1..Len(commits) : /\ commits[i].change.kind = "insert_notice"
                                    /\ commits[i].change.id = n
    /\ \/ dbNotice[n] # NoRow /\ dbNotice[n].class_id = c
       \/ \E i \in 1..Len(commits) : /\ commits[i].change.kind = "delete_notice"
                                      /\ commits[i].change.id = n
                                      /\ arg[commits[i].req].class_id = c

\* The delete_class_notice requests for notice n of class c
DeletesOf(n, c) ==
    {r \in Req : /\ op[r] = "delete_class_notice"
                 /\ arg[r] = [class_id |-> c, notice_id |-> n]}

\* The request answers with the deleted record's data
ReturnsDeleted(r, n, c) ==
    /\ resp[r] = "ok"
    /\ result[r].kind = "ClassNotice" /\ result[r].id = n /\ result[r].class_id = c

\* A database call of the request failed
DbFailed(r) ==
    \E e \in {"execute_fail", "commit_fail", "rollback_fail", "scope_commit_fail",
               "scope_rollback_fail"} : Has(r, e)

\* C13 as claimed: of the delete_class_notice requests for a notice that
\* exists, one succeeds with the deleted record's data, every other one yields
\* Not Found, and the record is gone afterwards
C13_DeleteOnce ==
    \A n \in NoticeIds, c \in ClassIds :
        (/\ ExistedFromStart(n, c)
         /\ DeletesOf(n, c) # {}
         /\ \A r \in DeletesOf(n, c) : Done(r)) =>
            /\ Cardinality({r \in DeletesOf(n, c) : ReturnsDeleted(r, n, c)}) = 1
            /\ \A r \in DeletesOf(n, c) :
                  ReturnsDeleted(r, n, c) \/ resp[r] = "ClassNoticeNotFound"
            /\ dbNotice[n] = NoRow

\* C13, amended: at most one of them succeeds, with the deleted record's data,
\* and then the record is gone; every one that meets no database failure
\* succeeds or yields Not Found; if none of them meets a database failure
\* exactly one succeeds; one that meets a database failure reports a failure
\* and deletes nothing
C13_DeleteOnceUnlessFailure ==
    \A n \in NoticeIds, c \in ClassIds :
        LET D == DeletesOf(n, c)
            Won == {r \in D : Done(r) /\ resp[r] = "ok"}
        IN  ExistedFromStart(n, c) =>
              /\ Cardinality(Won) <= 1
              /\ \A r \in Won : ReturnsDeleted(r, n, c) /\ dbNotice[n] = NoRow
              /\ \A r \in D : (Done(r) /\ ~DbFailed(r)) =>
                    resp[r] \in {"ok", "ClassNoticeNotFound"}
              /\ \A r \in D : (Done(r) /\ DbFailed(r)) =>
                    (resp[r] \in {"ClassNoticeDeleteFailed", "DBError"} /\ Mine(r) = {})
              /\ (D # {} /\ \A r \in D : Done(r) /\ ~DbFailed(r)) =>
                    (Cardinality(Won) = 1 /\ dbNotice[n] = NoRow)
              /\ dbNotice[n] = NoRow <=>
                    \E r \in D : Has(r, "commit_ok") /\ result[r] # None

C13_Witness ==
    \E r, q \in Req :
        /\ r # q /\ {r, q} \subseteq DeletesOf(1, "c1")
        /\ ExistedFromStart(1, "c1")
        /\ Done(r) /\ Done(q) /\ r \notin before[q] /\ q \notin before[r]
        /\ ReturnsDeleted(r, 1, "c1") /\ resp[q] = "ClassNoticeNotFound"
        /\ ~DbFailed(r) /\ ~DbFailed(q)

\* ---------------------------------------------------------------- C14
\* The (class_id, notice_id) pair of the request has matched no notice at any
\* time since it arrived: the notice belongs to a different class, or its id has
\* not been handed out, or it had been deleted before the request arrived
NeverMatched(r) ==
    LET n == arg[r].notice_id
        c == arg[r].class_id
    IN  \/ dbNotice[n] # NoRow /\ dbNotice[n].class_id # c
        \/ dbNotice[n] = NoRow /\ nextNoticeId <= n
        \/ \E i \in 1..Len(commits) : /\ commits[i].change.kind = "delete_notice"
                                       /\ commits[i].change.id = n
                                       /\ commits[i].req \in before[r]

\* The request has changed no row of the database
NoRowChanged(r) ==
    /\ \A i \in Mine(r) : commits[i].change.kind = "noop"
    /\ pending[r].kind \in {"none", "noop"}
    /\ \A n \in NoticeIds : rowLock[n] # r

\* C14 as claimed: update_class_notice with a pair that matches no notice
\* yields Not Found and changes no row
C14_UpdateMissing ==
    \A r \in Req :
        (op[r] = "update_class_notice" /\ Done(r) /\ NeverMatched(r)) =>
            (resp[r] = "ClassNoticeNotFound" /\ NoRowChanged(r))

\* C14, amended: it changes no row, and yields Not Found unless one of its
\* database calls fails, in which case it reports the failure
C14_UpdateMissingUnlessFailure ==
    \A r \in Req :
        (op[r] = "update_class_notice" /\ NeverMatched(r)) =>
            /\ NoRowChanged(r)
            /\ Has(r, "execute_ok") => result[r] = None
            /\ (Done(r) /\ ~DbFailed(r)) =>
                  (resp[r] = "ClassNoticeNotFound" /\ Has(r, "commit_ok"))
            /\ (Done(r) /\ DbFailed(r)) =>
                  resp[r] \in {"ClassNoticeUpdateFailed", "DBError"}

C14_Witness ==
    \E r \in Req :
        /\ op[r] = "update_class_notice" /\ Done(r)
        /\ arg[r].class_id = "c2"
        /\ dbNotice[arg[r].notice_id] # NoRow
        /\ dbNotice[arg[r].notice_id].class_id = "c1"
        /\ resp[r] = "ClassNoticeNotFound" /\ ~DbFailed(r)

\* ---------------------------------------------------------------- C15
\* r2 is a read_class_list that arrived after the create_class r1 had returned
\* success, and that took the miss path as far as its database query
ListsAfterCreate(r1, r2) ==
    /\ op[r1] = "create_class" /\ Done(r1) /\ resp[r1] = "ok"
    /\ op[r2] = "read_class_list" /\ r1 \in before[r2]
    /\ Has(r2, "exists_false") /\ Has(r2, "execute_ok")

KeepsEntry(k) ==
    Live(k) =>
        \/ cache'[k] = NoEntry
        \/ /\ cache'[k].by = cache[k].by
           /\ cache'[k].value = cache[k].value
           /\ cache'[k].ttl + cache'[k].sinceSet = cache[k].ttl + cache[k].sinceSet

\* C18: cache entries are immutable once written -- whatever the interleaving
\* of concurrent reads, a live entry keeps its value and its expiry until it
\* expires, and no set is performed on a key that holds a live entry
C18_EntriesImmutable == [][\A k \in Keys : KeepsEntry(k)]_vars

\* ---------------------------------------------------------------- C19
CacheEvents == {"exists_true", "exists_false", "get_value", "get_none", "set", "cache_fail"}

\* The step is the cache set of a read request on its miss path, with ttl 60
IsMissPathSet(k) ==
    \E r \in Req :
        /\ IsRead(r) /\ KeyOf(r) = k /\ pc[r] = "set"
        /\ Has(r, "enter") /\ Has(r, "execute_ok") /\ hit[r] = NoEntry
        /\ op[r] = "read_class_list" => Has(r, "exists_false")
        /\ log'[r] = Append(log[r], "set")
        /\ cache'[k] # NoEntry
        /\ cache'[k].value = result[r] /\ cache'[k].ttl = TTL /\ cache'[k].by = r

\* The step is the passing of time: the entry ages, or is gone at its expiry
IsExpiryStep(k) ==
    /\ log' = log /\ pc' = pc
    /\ cache[k] # NoEntry
    /\ IF cache[k].ttl <= TickStep THEN cache'[k] = NoEntry
       ELSE /\ cache'[k] # NoEntry
            /\ cache'[k].value = cache[k].value /\ cache'[k].by = cache[k].by
            /\ cache'[k].ttl = cache[k].ttl - TickStep

\* No step of a write request touches the cache
WriteStepsKeepCache ==
    \A r \in Req : (IsWrite(r) /\ (pc'[r] # pc[r] \/ log'[r] # log[r])) => cache' = cache

WritesUseNoCache ==
    \A r \in Req : IsWrite(r) =>
        /\ \A i \in 1..Len(log[r]) : log[r][i] \notin CacheEvents
        /\ hit[r] = NoEntry

\* C19: the write endpoints, on success and on failure, perform no cache get,
\* set or eviction; an entry is created only by the set of the miss path of
\* read_class and read_class_list, with ttl 60, and is removed only by expiry
C19_WritesLeaveCache ==
    /\ [](WritesUseNoCache)
    /\ [][/\ WriteStepsKeepCache
          /\ \A k \in Keys : cache'[k] # cache[k] => (IsMissPathSet(k) \/ IsExpiryStep(k))]_vars

C19_Witness ==
    \E r \in Req, k \in Keys :
        /\ IsWrite(r) /\ Done(r) /\ resp[r] = "ok" /\ Has(r, "commit_ok")
        /\ pending[r] = NoChange /\ Mine(r) # {}
        /\ Live(k) /\ cache[k].by \in before[r]

\* ---------------------------------------------------------------- C20
\* How often the request has issued one of the calls in evs
Issued(r, evs) == Cardinality({i \in 1..Len(log[r]) : log[r][i] \in evs})

\* C20: no automatic retries -- a write request executes its statement at most
\* once and attempts its commit at most once; after a failure of either it
\* issues no further statement or commit, and ends with a failure reported and
\* nothing committed
C20_NoRetries ==
    \A r \in Req : IsWrite(r) =>
        /\ Issued(r, {"execute_ok", "execute_fail"}) <= 1
        /\ Issued(r, {"commit_ok", "commit_fail"}) <= 1
        /\ Issued(r, {"rollback_ok", "rollback_fail"}) <= 1
        /\ Has(r, "execute_fail") => Issued(r, {"commit_ok", "commit_fail"}) = 0
        /\ (Has(r, "execute_fail") \/ Has(r, "commit_fail")) =>
              /\ pc[r] \in {"except", "exit", "done"}
              /\ Mine(r) = {}
              /\ Done(r) => resp[r] \in {FailedKind(op[r]), "DBError"}

C20_Witness ==
    \E r, q \in Req :
        /\ r # q /\ IsWrite(r) /\ Done(r) /\ Has(r, "execute_fail")
        /\ resp[r] = FailedKind(op[r])
        /\ IsWrite(q) /\ Done(q) /\ Has(q, "commit_fail")
        /\ Issued(q, {"execute_ok", "execute_fail"}) = 1

====
